---- MODULE Spec2Model ----
(***************************************************************************)
(* SGU Story Weaver (src/app.py): a Streamlit script.  Streamlit executes  *)
(* the whole script once per page load and once per widget interaction; a  *)
(* function under @st.cache_resource keeps its return value for the life   *)
(* of the process, and keeps nothing when the function does not return     *)
(* (st.stop() leaves the function by raising the script-control exception  *)
(* that ends the run).                                                     *)
(*                                                                         *)
(* Strings the program computes with are sequences of one-character        *)
(* strings; opaque strings (keys, model names, exception messages) are     *)
(* TLA+ strings.  `shown` holds the status and result elements a run puts  *)
(* in the main area (st.error, st.info, st.warning, st.json, the story and *)
(* the download button); the static decoration (logo, title, expander,     *)
(* footer) carries no state and is left out.                               *)
(***************************************************************************)
EXTENDS Integers, Sequences, FiniteSets, TLC

VARIABLES
    secrets,          \* st.secrets as get_api_key found it in this run
    environ,          \* os.environ's GEMINI_API_KEY as it stood in that run
    key_cache,        \* @st.cache_resource store of get_api_key
    model_cache,      \* @st.cache_resource store of configure_gemini
    genai_key,        \* the key genai.configure() installed, or Missing
    list_calls,       \* genai.list_models() invocations of this process
    pc,               \* position of the current script run
    model,            \* module variable `model` (line 103) of this run
    stopped,          \* st.stop() ended this run
    shown,            \* main-area elements of this run, in order
    sidebar,          \* sidebar elements of this run, in order
    listed,           \* what list_models() answered in this run, if asked
    env_read,         \* os.getenv was evaluated in this run
    user_prompt,      \* value of the text area (key "user_story_prompt")
    clicked,          \* st.button's return value in this run
    button_disabled,  \* `disabled` of the button as last rendered
    widgets,          \* the last run rendered the text area and the button
    calls,            \* generate_content invocations of this run, in order
    api_exception,    \* message of the exception generate_content raised in
                      \* this run, NoExc if it returned or was not invoked
    story_text,       \* main's local story_text
    feedback,         \* main's local feedback
    download,         \* the download button's data, if offered
    response,         \* extraction harness: the response under test
    extracted         \* extraction harness: what extraction returned for it

vars == <<secrets, environ, key_cache, model_cache, genai_key, list_calls, pc,
          model, stopped, shown, sidebar, listed, env_read, user_prompt,
          clicked, button_disabled, widgets, calls, api_exception, story_text,
          feedback, download, response, extracted>>

process_vars == <<key_cache, model_cache, genai_key, list_calls>>
harness_vars == <<response, extracted>>

---------------------------------------------------------------------------
(* Bounds of the model *)

\* longest text the user types into the text area
MaxLen == 3
\* longest parts sequence of a response in the extraction harness
MaxParts == 2
\* longest parts sequence of a response the provider returns to a script run
MaxCallParts == 1
\* list_models() invocations after which no further listing is explored
MaxListCalls == 3

---------------------------------------------------------------------------
(* Python values *)

\* a missing attribute / a missing mapping entry / os.getenv's None
Missing == "<missing>"
None == [t |-> "None"]
Str(s) == [t |-> "str", v |-> s]
\* truth value of an optional string: None and "" are falsy
TruthyStr(x) == x.t = "str" /\ Len(x.v) > 0

Msg(kind, arg) == [kind |-> kind, arg |-> arg]
InSeq(x, s) == \E i \in 1..Len(s) : s[i] = x
Count(k, msgs) == Cardinality({i \in 1..Len(msgs) : msgs[i].kind = k})

Min(S) == CHOOSE x \in S : \A y \in S : x <= y
Max(S) == CHOOSE x \in S : \A y \in S : x >= y

---------------------------------------------------------------------------
(* Credential resolution: get_api_key, lines 22-59 *)

SecretStates ==
    { [facility |-> "unavailable", key |-> Missing],
      [facility |-> "ok", key |-> Missing],
      [facility |-> "ok", key |-> ""],
      [facility |-> "ok", key |-> "key-from-secrets"] }
EnvStates == { Missing, "", "key-from-env" }
\* a run that does not execute the body of get_api_key consults neither
SecretsNotConsulted == [facility |-> "not consulted", key |-> Missing]
EnvNotConsulted == "<not consulted>"

\* the function's result: ret is its return value; stop is TRUE when it left
\* through st.stop() instead of returning
Outcome(ret, stop, main_msgs, side_msgs, read_env, list_result) ==
    [ret |-> ret, stop |-> stop, shown |-> main_msgs, sidebar |-> side_msgs,
     env_read |-> read_env, listed |-> list_result]

NoListing == [asked |-> FALSE]

\* lines 25-32: the secret is used when the facility answers and holds the name;
\* an exception of the facility falls through to the environment
SecretHit(st_secrets) == st_secrets.facility = "ok" /\ st_secrets.key # Missing

\* variant: the environment variable is looked up before the secret
get_api_key_EnvFirst(st_secrets, os_environ) ==
    IF os_environ # Missing /\ os_environ # ""
    THEN Outcome(os_environ, FALSE, <<>>,
                 <<Msg("sidebar.info:key_from_env", <<>>)>>, TRUE, NoListing)
    ELSE IF SecretHit(st_secrets)
         THEN Outcome(st_secrets.key, FALSE, <<>>,
                      <<Msg("sidebar.info:key_from_secrets", <<>>)>>, TRUE, NoListing)
         ELSE Outcome(Missing, TRUE, <<Msg("error:key_not_found", <<>>)>>,
                      <<>>, TRUE, NoListing)

get_api_key(st_secrets, os_environ) ==
    IF SecretHit(st_secrets)
    THEN Outcome(st_secrets.key, FALSE, <<>>,
                 <<Msg("sidebar.info:key_from_secrets", <<>>)>>, FALSE, NoListing)
    ELSE IF os_environ # Missing /\ os_environ # ""
         THEN Outcome(os_environ, FALSE, <<>>,
                      <<Msg("sidebar.info:key_from_env", <<>>)>>, TRUE, NoListing)
         ELSE Outcome(Missing, TRUE, <<Msg("error:key_not_found", <<>>)>>,
                      <<>>, TRUE, NoListing)

---------------------------------------------------------------------------
(* @st.cache_resource, lines 22 and 63 *)

NotCached == [hit |-> FALSE]
Cached(value, side_msgs) == [hit |-> TRUE, value |-> value, sidebar |-> side_msgs]

\* a hit returns the stored value and replays the stored elements
Replay(cache) == Outcome(cache.value, FALSE, <<>>, cache.sidebar, FALSE, NoListing)

\* variant: the function is not memoised
Store_Nothing(cache, out) == NotCached

\* the store after a call: a call that returned is kept, one that stopped is not
Store(cache, out) ==
    IF cache.hit THEN cache
    ELSE IF out.stop THEN NotCached ELSE Cached(out.ret, out.sidebar)

---------------------------------------------------------------------------
(* Model selection: configure_gemini, lines 63-99 *)

FREE_GEMINI_MODEL == "models/gemini-2.5-flash"
fallback_model == "models/gemini-pro"
Catalog == <<FREE_GEMINI_MODEL, fallback_model, "models/embedding-001">>

GenerativeModel(name) == [t |-> "GenerativeModel", model_name |-> name]
Unset == [t |-> "unset"]
TruthyModel(m) == m.t = "GenerativeModel"

Exceptions == {"deadline exceeded", "invalid api key"}

\* what genai.list_models() can answer: an exception, or some models of the
\* catalog, each supporting generateContent or not
Entry(i, st) ==
    IF st = "absent" THEN <<>>
    ELSE <<[name |-> Catalog[i], generateContent |-> (st = "gen")]>>
ModelLists ==
    { Entry(1, f[1]) \o Entry(2, f[2]) \o Entry(3, f[3]) :
        f \in [1..3 -> {"absent", "gen", "nogen"}] }
Listings ==
    { [asked |-> TRUE, ok |-> TRUE, models |-> ms, err |-> ""] : ms \in ModelLists }
    \cup { [asked |-> TRUE, ok |-> FALSE, models |-> <<>>, err |-> e] : e \in Exceptions }

SupportsGenerate(m) == m.generateContent
\* variant: the supported-methods filter is dropped
available_models_Unfiltered(models) ==
    [i \in 1..Len(models) |-> models[i].name]

\* lines 73-76
available_models(models) ==
    LET kept == SelectSeq(models, SupportsGenerate)
    IN  [i \in 1..Len(kept) |-> kept[i].name]

\* lines 78-95, given the filtered list
SelectModel(available, side_msgs) ==
    IF InSeq(FREE_GEMINI_MODEL, available)
    THEN [ret |-> GenerativeModel(FREE_GEMINI_MODEL), stop |-> FALSE, shown |-> <<>>,
          sidebar |-> side_msgs \o <<Msg("sidebar.success:using_model", <<FREE_GEMINI_MODEL>>)>>]
    ELSE IF InSeq(fallback_model, available)
         THEN [ret |-> GenerativeModel(fallback_model), stop |-> FALSE, shown |-> <<>>,
               sidebar |-> side_msgs \o <<Msg("sidebar.warning:fallback", <<fallback_model>>)>>]
         ELSE [ret |-> None, stop |-> TRUE,
               shown |-> <<Msg("error:no_valid_models", <<>>),
                           Msg("info:available_models", <<>>),
                           Msg("json", available)>>,
               sidebar |-> side_msgs]

\* the body of configure_gemini; api is the outcome of its get_api_key() call,
\* listing is what list_models() answers if it is asked
configure_gemini(api, listing) ==
    IF api.stop
    THEN Outcome(None, TRUE, api.shown, api.sidebar, api.env_read, NoListing)
    ELSE IF api.ret = ""
         THEN Outcome(None, FALSE, <<>>, api.sidebar, api.env_read, NoListing)
         ELSE IF ~listing.ok
              THEN Outcome(None, TRUE, <<Msg("error:configure_failed", <<listing.err>>)>>,
                           api.sidebar, api.env_read, listing)
              ELSE LET sel == SelectModel(available_models(listing.models), api.sidebar)
                   IN  Outcome(sel.ret, sel.stop, sel.shown, sel.sidebar,
                               api.env_read, listing)

---------------------------------------------------------------------------
(* Prompt assembly: SGU_CONTEXT (lines 106-138) and full_prompt (149-168) *)

\* the campus context, one element per block of the literal
SGU_CONTEXT ==
    << "## SGU Campus Context",
       "**Sanjay Ghodawat University (SGU)** ...",
       "**Key Academic Areas & Schools ...:**",
       "**Specific Campus Facilities & Landmarks:**",
       "**Campus Vibe:** ..." >>

\* the three literal stretches of the f-string around its two substitutions
PromptIntro ==
    << "You are a creative storyteller. ... (around 250-400 words) ...",
       "**SGU Campus Details:**" >>
PromptIdea == << "**User's Story Idea:**" >>
PromptInstructions ==
    << "**Instructions:**",
       "1. Make the story feel authentic to the SGU campus experience.",
       "2. Mention at least 2-3 specific SGU locations ...",
       "3. Ensure the story is appropriate for all audiences and positive in tone.",
       "4. Generate *only* the story text, using clear paragraphs. Do not add a title.",
       "5. Please make sure that story is easy to read by any age group.",
       "**Story:**" >>

\* variant: the two substitutions are exchanged
full_prompt_IdeaFirst(prompt_arg) ==
    PromptIntro \o prompt_arg \o PromptIdea \o SGU_CONTEXT \o PromptInstructions

full_prompt(prompt_arg) ==
    PromptIntro \o SGU_CONTEXT \o PromptIdea \o prompt_arg \o PromptInstructions

---------------------------------------------------------------------------
(* The text area and str.strip(), lines 235-258 *)

Chars == {" ", "a"}
IsSpace(c) == c = " "
Inputs == UNION { [1..n -> Chars] : n \in 0..MaxLen }

\* str.strip(): drop the leading and the trailing whitespace, keep the rest
strip(s) ==
    LET solid == {i \in 1..Len(s) : ~IsSpace(s[i])}
    IN  IF solid = {} THEN <<>> ELSE SubSeq(s, Min(solid), Max(solid))

---------------------------------------------------------------------------
(* The provider's answer to generate_content and its extraction, 187-206 *)

NoAttr == [t |-> "NoAttr"]
HasAttr(x) == x.t # "NoAttr"
List(v) == [t |-> "list", v |-> v]

TextPart(s) == [has_text |-> TRUE, text |-> s]
NoTextPart == [has_text |-> FALSE, text |-> <<>>]
PartValues == { NoTextPart, TextPart(<<"H", " ">>), TextPart(<<"w">>) }
PartSeqs(n) == UNION { [1..k -> PartValues] : k \in 0..n }

BlockReason(name) == [t |-> "BlockReason", name |-> name]
PromptFeedback(truthy, reason) ==
    [t |-> "PromptFeedback", truthy |-> truthy, block_reason |-> reason]
\* a feedback object is truthy or falsy as its class decides (bool(feedback)),
\* and carries a block_reason attribute or not
FeedbackObjects ==
    { PromptFeedback(TRUE, r) :
        r \in {NoAttr, BlockReason("SAFETY"), BlockReason("OTHER")} }
    \cup { PromptFeedback(FALSE, r) : r \in {NoAttr, BlockReason("SAFETY")} }
Truthy(fb) == fb.t = "PromptFeedback" /\ fb.truthy

TextValues == { NoAttr, None, Str(<<>>), Str(<<"O", "n">>) }
ResponsesUpTo(n) ==
    { [parts |-> p, text |-> t, prompt_feedback |-> f] :
        p \in {NoAttr} \cup { List(v) : v \in PartSeqs(n) },
        t \in TextValues,
        f \in {NoAttr, None} \cup FeedbackObjects }
EmptyResponse == [parts |-> NoAttr, text |-> NoAttr, prompt_feedback |-> NoAttr]

NoExc == "<no exception>"
CallOutcomes ==
    { [raised |-> FALSE, e |-> NoExc, response |-> r] : r \in ResponsesUpTo(MaxCallParts) }
    \cup { [raised |-> TRUE, e |-> e, response |-> EmptyResponse] : e \in Exceptions }

\* a run that does not reach line 188 has no invocation to draw an outcome for
NoInvocation == [raised |-> FALSE, e |-> NoExc, response |-> EmptyResponse]

\* line 201: "".join(part.text for part in response.parts if hasattr(part, 'text'))
RECURSIVE JoinText(_)
JoinText(parts) ==
    IF parts = <<>> THEN <<>>
    ELSE (IF Head(parts).has_text THEN Head(parts).text ELSE <<>>)
         \o JoinText(Tail(parts))

\* variant: parts that join to nothing fall through to the text field
ExtractText_FallThrough(resp) ==
    IF HasAttr(resp.parts) /\ Len(JoinText(resp.parts.v)) > 0
    THEN Str(JoinText(resp.parts.v))
    ELSE IF HasAttr(resp.text) /\ TruthyStr(resp.text)
         THEN resp.text
         ELSE None

\* lines 195-204
ExtractText(resp) ==
    IF HasAttr(resp.parts) /\ Len(resp.parts.v) > 0
    THEN Str(JoinText(resp.parts.v))
    ELSE IF HasAttr(resp.text) /\ TruthyStr(resp.text)
         THEN resp.text
         ELSE None

\* line 196: getattr(response, 'prompt_feedback', None)
ExtractFeedback(resp) ==
    IF HasAttr(resp.prompt_feedback) THEN resp.prompt_feedback ELSE None

\* lines 194-206: the pair the function returns for a response
ExtractResponse(resp) ==
    [story_text |-> ExtractText(resp), feedback |-> ExtractFeedback(resp)]

---------------------------------------------------------------------------
(* generate_sgu_story, lines 142-212 *)

Call(prompt_arg, _model) ==
    [input |-> prompt_arg, prompt |-> full_prompt(prompt_arg), model |-> _model]

Generated(text, fb, msgs, made, exc) ==
    [story_text |-> text, feedback |-> fb, shown |-> msgs, calls |-> made, exc |-> exc]

\* variant: a failed invocation is attempted a second time
generate_sgu_story_Retry(prompt_arg, _model, outcome) ==
    IF ~TruthyModel(_model)
    THEN Generated(None, None, <<Msg("error:model_not_initialized", <<>>)>>, <<>>, NoExc)
    ELSE IF outcome.raised
         THEN Generated(None, None,
                        <<Msg("error:api_error", <<outcome.e>>),
                          Msg("info:check_network", <<>>)>>,
                        <<Call(prompt_arg, _model), Call(prompt_arg, _model)>>,
                        outcome.e)
         ELSE LET x == ExtractResponse(outcome.response)
              IN  Generated(x.story_text, x.feedback, <<>>,
                            <<Call(prompt_arg, _model)>>, NoExc)

\* variant: the handler of the exception returns a feedback object
generate_sgu_story_FeedbackOnError(prompt_arg, _model, outcome) ==
    IF ~TruthyModel(_model)
    THEN Generated(None, None, <<Msg("error:model_not_initialized", <<>>)>>, <<>>, NoExc)
    ELSE IF outcome.raised
         THEN Generated(None, PromptFeedback(TRUE, NoAttr),
                        <<Msg("error:api_error", <<outcome.e>>),
                          Msg("info:check_network", <<>>)>>,
                        <<Call(prompt_arg, _model)>>, outcome.e)
         ELSE LET x == ExtractResponse(outcome.response)
              IN  Generated(x.story_text, x.feedback, <<>>,
                            <<Call(prompt_arg, _model)>>, NoExc)

\* outcome is what the one generate_content invocation does
generate_sgu_story(prompt_arg, _model, outcome) ==
    IF ~TruthyModel(_model)
    THEN Generated(None, None, <<Msg("error:model_not_initialized", <<>>)>>, <<>>, NoExc)
    ELSE IF outcome.raised
         THEN Generated(None, None,
                        <<Msg("error:api_error", <<outcome.e>>),
                          Msg("info:check_network", <<>>)>>,
                        <<Call(prompt_arg, _model)>>, outcome.e)
         ELSE LET x == ExtractResponse(outcome.response)
              IN  Generated(x.story_text, x.feedback, <<>>,
                            <<Call(prompt_arg, _model)>>, NoExc)

---------------------------------------------------------------------------
(* main, lines 216-288 *)

\* line 250: disabled=not user_prompt.strip()
ButtonDisabled(text_value) == strip(text_value) = <<>>

\* line 255: if clicked and user_prompt.strip()
Submitted(text_value, button_value) == button_value /\ strip(text_value) # <<>>

\* variant: the text is handed over as typed
PromptArgument_Raw(text_value) == text_value

\* line 258: the argument handed to generate_sgu_story
PromptArgument(text_value) == strip(text_value)

NoDownload == [t |-> "None"]
Download(data) == [t |-> "download", data |-> data, mime |-> "text/plain"]

\* variant: the block test comes before the text test
Classify_BlockFirst(text, fb) ==
    IF Truthy(fb) /\ HasAttr(fb.block_reason)
    THEN [shown |-> <<Msg("error:blocked", <<>>),
                      Msg("info:reason", <<fb.block_reason.name>>),
                      Msg("warning:rephrase", <<>>)>>,
          download |-> NoDownload]
    ELSE IF TruthyStr(text)
         THEN [shown |-> <<Msg("subheader:your_story", <<>>),
                           Msg("markdown:story", text.v),
                           Msg("download_button", text.v)>>,
               download |-> Download(text.v)]
         ELSE IF ~Truthy(fb)
              THEN [shown |-> <<>>, download |-> NoDownload]
              ELSE [shown |-> <<Msg("warning:no_story", <<>>)>>,
                    download |-> NoDownload]

\* lines 260-288: what main shows for the pair generate_sgu_story returned
Classify(text, fb) ==
    IF TruthyStr(text)
    THEN [shown |-> <<Msg("subheader:your_story", <<>>),
                      Msg("markdown:story", text.v),
                      Msg("download_button", text.v)>>,
          download |-> Download(text.v)]
    ELSE IF Truthy(fb) /\ HasAttr(fb.block_reason)
         THEN [shown |-> <<Msg("error:blocked", <<>>),
                           Msg("info:reason", <<fb.block_reason.name>>),
                           Msg("warning:rephrase", <<>>)>>,
               download |-> NoDownload]
         ELSE IF ~TruthyStr(text) /\ ~Truthy(fb)
              THEN [shown |-> <<>>, download |-> NoDownload]
              ELSE [shown |-> <<Msg("warning:no_story", <<>>)>>,
                    download |-> NoDownload]

Page(msgs, disabled, made, exc, text, fb, dl) ==
    [shown |-> msgs, button_disabled |-> disabled, calls |-> made, exc |-> exc,
     story_text |-> text, feedback |-> fb, download |-> dl]

main(_model, text_value, button_value, outcome) ==
    IF Submitted(text_value, button_value)
    THEN LET gen == generate_sgu_story(PromptArgument(text_value), _model, outcome)
             cls == Classify(gen.story_text, gen.feedback)
         IN  Page(gen.shown \o cls.shown, ButtonDisabled(text_value), gen.calls,
                  gen.exc, gen.story_text, gen.feedback, cls.download)
    ELSE Page(<<>>, ButtonDisabled(text_value), <<>>, NoExc, None, None, NoDownload)

---------------------------------------------------------------------------
(* The script, run by run *)

NotExtracted == [t |-> "pending"]

Init ==
    /\ secrets = SecretsNotConsulted
    /\ environ = EnvNotConsulted
    /\ key_cache = NotCached
    /\ model_cache = NotCached
    /\ genai_key = Missing
    /\ list_calls = 0
    /\ pc = "configure"
    /\ model = Unset
    /\ stopped = FALSE
    /\ shown = <<>>
    /\ sidebar = <<>>
    /\ listed = NoListing
    /\ env_read = FALSE
    /\ user_prompt = <<>>
    /\ clicked = FALSE
    /\ button_disabled = TRUE
    /\ widgets = FALSE
    /\ calls = <<>>
    /\ api_exception = NoExc
    /\ story_text = None
    /\ feedback = None
    /\ download = NoDownload
    /\ response = EmptyResponse
    /\ extracted = NotExtracted

\* Streamlit starts a run of the script with the widget values of the session
StartRun(text_value, button_value) ==
    /\ pc = "idle"
    /\ pc' = "configure"
    /\ secrets' = SecretsNotConsulted
    /\ environ' = EnvNotConsulted
    /\ model' = Unset
    /\ stopped' = FALSE
    /\ shown' = <<>>
    /\ sidebar' = <<>>
    /\ listed' = NoListing
    /\ env_read' = FALSE
    /\ user_prompt' = text_value
    /\ clicked' = button_value
    /\ calls' = <<>>
    /\ story_text' = None
    /\ feedback' = None
    /\ download' = NoDownload
    /\ api_exception' = NoExc
    /\ UNCHANGED <<process_vars, button_disabled, widgets, harness_vars>>

\* the user commits another text in the text area
EditText ==
    /\ widgets
    /\ \E s \in Inputs : s # user_prompt /\ StartRun(s, FALSE)

\* the user presses the button, which the page offers only when enabled
Click ==
    /\ widgets
    /\ ~button_disabled
    /\ StartRun(user_prompt, TRUE)

\* the page is loaded again: a new session, with the widgets' defaults
Refresh == StartRun(<<>>, FALSE)

\* line 103: model = configure_gemini(), through both caches
ConfigureGemini ==
    /\ pc = "configure"
    /\ \E st_secrets \in (IF model_cache.hit \/ key_cache.hit
                           THEN {SecretsNotConsulted} ELSE SecretStates),
          os_environ \in (IF model_cache.hit \/ key_cache.hit
                           THEN {EnvNotConsulted} ELSE EnvStates),
          listing \in (IF model_cache.hit THEN {NoListing} ELSE Listings) :
         LET resolves == ~model_cache.hit /\ ~key_cache.hit
             api == IF key_cache.hit THEN Replay(key_cache)
                    ELSE get_api_key(st_secrets, os_environ)
             out == IF model_cache.hit THEN Replay(model_cache)
                    ELSE configure_gemini(api, listing)
         IN  /\ out.listed.asked => list_calls < MaxListCalls
             /\ secrets' = IF resolves THEN st_secrets ELSE SecretsNotConsulted
             /\ environ' = IF resolves THEN os_environ ELSE EnvNotConsulted
             /\ key_cache' = IF model_cache.hit THEN key_cache ELSE Store(key_cache, api)
             /\ model_cache' = Store(model_cache, out)
             /\ genai_key' = IF out.listed.asked THEN api.ret ELSE genai_key
             /\ list_calls' = IF out.listed.asked THEN list_calls + 1 ELSE list_calls
             /\ stopped' = out.stop
             /\ model' = IF out.stop THEN Unset ELSE out.ret
             /\ pc' = IF out.stop THEN "idle" ELSE "page"
             /\ widgets' = IF out.stop THEN FALSE ELSE widgets
             /\ shown' = out.shown
             /\ sidebar' = out.sidebar
             /\ listed' = out.listed
             /\ env_read' = out.env_read
    /\ UNCHANGED <<user_prompt, clicked, button_disabled, calls,
                   api_exception, story_text, feedback, download, harness_vars>>

\* lines 306-313: the page, or the warning when there is no model
RunPage ==
    /\ pc = "page"
    /\ \E outcome \in (IF TruthyModel(model) /\ Submitted(user_prompt, clicked)
                        THEN CallOutcomes ELSE {NoInvocation}) :
         LET page == IF TruthyModel(model)
                     THEN main(model, user_prompt, clicked, outcome)
                     ELSE Page(<<Msg("warning:cannot_start", <<>>)>>, TRUE, <<>>,
                               NoExc, None, None, NoDownload)
         IN  /\ shown' = shown \o page.shown
             /\ button_disabled' = page.button_disabled
             /\ widgets' = TruthyModel(model)
             /\ calls' = page.calls
             /\ api_exception' = page.exc
             /\ story_text' = page.story_text
             /\ feedback' = page.feedback
             /\ download' = page.download
    /\ pc' = "idle"
    /\ UNCHANGED <<process_vars, secrets, environ, model, stopped, sidebar, listed,
                   env_read, user_prompt, clicked, harness_vars>>

Next == EditText \/ Click \/ Refresh \/ ConfigureGemini \/ RunPage

Spec == Init /\ [][Next]_vars

---------------------------------------------------------------------------
(* Extraction on its own: every response shape, lines 194-206 *)

InitExtract ==
    /\ secrets = SecretsNotConsulted
    /\ environ = EnvNotConsulted
    /\ key_cache = NotCached
    /\ model_cache = NotCached
    /\ genai_key = Missing
    /\ list_calls = 0
    /\ pc = "extract"
    /\ model = Unset
    /\ stopped = FALSE
    /\ shown = <<>>
    /\ sidebar = <<>>
    /\ listed = NoListing
    /\ env_read = FALSE
    /\ user_prompt = <<>>
    /\ clicked = FALSE
    /\ button_disabled = TRUE
    /\ widgets = FALSE
    /\ calls = <<>>
    /\ api_exception = NoExc
    /\ story_text = None
    /\ feedback = None
    /\ download = NoDownload
    /\ response \in ResponsesUpTo(MaxParts)
    /\ extracted = NotExtracted

Extract ==
    /\ pc = "extract"
    /\ extracted' = ExtractResponse(response)
    /\ pc' = "extracted"
    /\ UNCHANGED <<process_vars, secrets, environ, model, stopped, shown, sidebar,
                   listed, env_read, user_prompt, clicked, button_disabled, widgets, calls,
                   api_exception, story_text, feedback, download, response>>

NextExtract == Extract

SpecExtract == InitExtract /\ [][NextExtract]_vars

---------------------------------------------------------------------------
(* Properties *)

CarriesText(part) == part.has_text
\* the number of characters the first k-1 text-carrying parts contribute
RECURSIVE LenBefore(_, _)
LenBefore(texts, k) ==
    IF k = 1 THEN 0 ELSE LenBefore(texts, k - 1) + Len(texts[k - 1].text)
\* r is the texts of `texts`, one after the other, and nothing else
IsConcatenation(r, texts) ==
    /\ Len(r) = LenBefore(texts, Len(texts) + 1)
    /\ \A k \in 1..Len(texts) :
         SubSeq(r, LenBefore(texts, k) + 1, LenBefore(texts, k + 1)) = texts[k].text

HasParts(resp) == HasAttr(resp.parts) /\ resp.parts.v # <<>>
HasDirectText(resp) ==
    HasAttr(resp.text) /\ resp.text.t = "str" /\ resp.text.v # <<>>

\* C1: the text returned for a response is, in this order of preference, the
\* texts of the text-carrying parts of a non-empty parts sequence joined in
\* sequence order, else a non-empty direct text field unchanged, else absent;
\* the feedback returned is the response's prompt feedback in all three cases
\* (absent when the response has none).
C1_ExtractionOrder ==
    pc = "extracted" =>
        /\ HasParts(response) =>
             /\ extracted.story_text.t = "str"
             /\ IsConcatenation(extracted.story_text.v,
                                SelectSeq(response.parts.v, CarriesText))
        /\ (~HasParts(response) /\ HasDirectText(response)) =>
             extracted.story_text = response.text
        /\ (~HasParts(response) /\ ~HasDirectText(response)) =>
             extracted.story_text = None
        /\ extracted.feedback =
             (IF HasAttr(response.prompt_feedback) THEN response.prompt_feedback ELSE None)

\* two text parts, and a direct text field that is not used
C1_Witness ==
    /\ pc = "extracted"
    /\ response.parts = List(<<TextPart(<<"H", " ">>), TextPart(<<"w">>)>>)
    /\ response.text = Str(<<"O", "n">>)
    /\ extracted.story_text = Str(<<"H", " ", "w">>)

---------------------------------------------------------------------------
(* Properties of a submission: main's classification, lines 254-288 *)

\* generate_sgu_story was invoked in this run and the run is over;
\* story_text and feedback hold the pair it returned
Returned == pc = "idle" /\ calls # <<>>

\* presence as the code tests it: truth value of the object
TextPresent == story_text.t = "str" /\ story_text.v # <<>>
FeedbackPresent == feedback.t = "PromptFeedback" /\ feedback.truthy
CarriesBlockReason == feedback.block_reason # NoAttr

VerdictKinds ==
    { "subheader:your_story", "markdown:story", "download_button",
      "error:blocked", "info:reason", "warning:rephrase", "warning:no_story" }
IsVerdict(m) == m.kind \in VerdictKinds
\* what main shows once generate_sgu_story has returned
Verdict == SelectSeq(shown, IsVerdict)

\* C2: for the pair generate_sgu_story returned, main shows exactly one of:
\* (1) text present: the story and a download of exactly that text; (2) no text,
\* feedback present with a block reason: the blocked message naming that reason;
\* (3) no text, no feedback: nothing; (4) no text, feedback present without a
\* block reason: the generic warning.  A download is offered only in (1) and the
\* blocked message is shown only for a feedback that carries a block reason.
\* Present means truthy, which is what the code tests.
C2_FourOutcomes ==
    /\ Returned =>
         /\ TextPresent =>
              /\ Verdict = << Msg("subheader:your_story", <<>>),
                              Msg("markdown:story", story_text.v),
                              Msg("download_button", story_text.v) >>
              /\ download = Download(story_text.v)
         /\ (~TextPresent /\ FeedbackPresent /\ CarriesBlockReason) =>
              Verdict = << Msg("error:blocked", <<>>),
                           Msg("info:reason", <<feedback.block_reason.name>>),
                           Msg("warning:rephrase", <<>>) >>
         /\ (~TextPresent /\ ~FeedbackPresent) => Verdict = <<>>
         /\ (~TextPresent /\ FeedbackPresent /\ ~CarriesBlockReason) =>
              Verdict = << Msg("warning:no_story", <<>>) >>
    /\ download # NoDownload => (Returned /\ TextPresent)
    /\ Count("error:blocked", shown) > 0 =>
         (Returned /\ ~TextPresent /\ FeedbackPresent /\ CarriesBlockReason)

\* a blocked submission whose reason is named
C2_Witness ==
    /\ Returned
    /\ feedback = PromptFeedback(TRUE, BlockReason("SAFETY"))
    /\ InSeq(Msg("info:reason", <<"SAFETY">>), shown)
    /\ download = NoDownload

\* C3: whenever main takes the silent branch (no text, no feedback, nothing
\* shown), generate_sgu_story has already shown an error in that run.
C3_SilentOnlyAfterError ==
    (Returned /\ ~TextPresent /\ ~FeedbackPresent) =>
        Count("error:api_error", shown) >= 1

\* C4: an exception of generate_content is caught, reported once with its
\* message, and gives (None, None); main adds nothing, in particular no block
\* message; the run is not stopped, the cached model is untouched, the button
\* stays available, and a later submission, like every submission, invokes
\* generate_content again with that model.
C4_ExceptionReportedOnce ==
    [][ /\ (pc = "page" /\ api_exception' # NoExc) =>
             /\ Len(calls') = 1
             /\ shown' = << Msg("error:api_error", <<api_exception'>>),
                            Msg("info:check_network", <<>>) >>
             /\ story_text' = None
             /\ feedback' = None
             /\ download' = NoDownload
             /\ ~stopped'
             /\ widgets' /\ ~button_disabled'
             /\ model_cache' = model_cache
             /\ model_cache'.hit /\ model_cache'.value = model'
        /\ (pc = "page" /\ clicked) =>
             /\ Len(calls') = 1
             /\ calls'[1].model = model_cache.value
      ]_vars

\* a submission whose invocation raised
C4_Witness ==
    /\ Returned
    /\ api_exception = "deadline exceeded"
    /\ Count("error:api_error", shown) = 1

---------------------------------------------------------------------------
(* Properties of configuration, lines 22-103 *)

\* the names of the listed models that support generateContent
ListedAvailable ==
    { listed.models[i].name :
        i \in { j \in 1..Len(listed.models) : listed.models[j].generateContent } }
NamesIn(seq) == { seq[i] : i \in 1..Len(seq) }

\* C5: in a run that lists the models: the primary is selected when it is
\* among the models supporting content generation, else the fallback when it
\* is; else the run stops with an error and the list of available models and
\* selects nothing; a failure of the listing stops the run with an error and
\* selects nothing.  A stopped run makes no generate_content invocation.
C5_ModelSelection ==
    /\ listed.asked =>
         /\ (listed.ok /\ FREE_GEMINI_MODEL \in ListedAvailable) =>
              /\ ~stopped
              /\ model = GenerativeModel(FREE_GEMINI_MODEL)
         /\ (listed.ok /\ FREE_GEMINI_MODEL \notin ListedAvailable
                       /\ fallback_model \in ListedAvailable) =>
              /\ ~stopped
              /\ model = GenerativeModel(fallback_model)
         /\ (listed.ok /\ FREE_GEMINI_MODEL \notin ListedAvailable
                       /\ fallback_model \notin ListedAvailable) =>
              /\ stopped
              /\ model = Unset
              /\ ~model_cache.hit
              /\ Len(shown) = 3
              /\ shown[1].kind = "error:no_valid_models"
              /\ shown[3].kind = "json"
              /\ NamesIn(shown[3].arg) = ListedAvailable
              /\ Len(shown[3].arg) = Cardinality(ListedAvailable)
         /\ ~listed.ok =>
              /\ stopped
              /\ model = Unset
              /\ ~model_cache.hit
              /\ shown = << Msg("error:configure_failed", <<listed.err>>) >>
    /\ stopped => (calls = <<>> /\ pc = "idle" /\ ~widgets)

\* the fallback chosen although the primary is listed, without generateContent
C5_Witness ==
    /\ listed.asked
    /\ listed.ok
    /\ \E i \in 1..Len(listed.models) : listed.models[i].name = FREE_GEMINI_MODEL
    /\ model = GenerativeModel(fallback_model)
    /\ pc = "idle"
    /\ widgets

\* C8 as stated: the listing operation is invoked at most once in a process.
C8_ListedAtMostOnce == list_calls <= 1

\* C8, amended: a run that completes the selection leaves it cached; once it
\* is cached it never changes and the models are never listed again; every
\* later run and every generate_content invocation uses the cached handle.
C8_SelectionFixedOnceMade ==
    [][ /\ model_cache.hit =>
             (model_cache' = model_cache /\ list_calls' = list_calls)
        /\ (pc = "configure" /\ ~stopped') =>
             (model_cache'.hit /\ model' = model_cache'.value)
        /\ \A i \in 1..Len(calls') :
             model_cache'.hit /\ calls'[i].model = model_cache'.value
      ]_vars

\* the models were listed twice before a handle was selected; a later run
\* generates with the cached handle without listing
C8_Witness ==
    /\ list_calls = 2
    /\ model_cache.hit
    /\ ~listed.asked
    /\ calls # <<>>

SecretPresent == secrets.facility = "ok" /\ secrets.key # Missing
EnvPresent == environ # Missing /\ environ # ""

---------------------------------------------------------------------------
(* Properties of the input and the prompt, lines 148-168 and 235-258 *)

Spaces(n) == [i \in 1..n |-> " "]
\* a is s without its leading and trailing blanks
IsTrimOf(a, s) ==
    /\ a # <<>> => (a[1] # " " /\ a[Len(a)] # " ")
    /\ \E l, r \in 0..Len(s) : s = Spaces(l) \o a \o Spaces(r)

\* C6: the button is disabled whenever the text is empty or blank, and
\* generate_sgu_story is only invoked with a non-empty prompt that is the
\* user's text without its leading and trailing blanks.
C6_NoBlankSubmission ==
    /\ (pc = "idle" /\ widgets /\ (\A i \in 1..Len(user_prompt) : user_prompt[i] = " "))
         => button_disabled
    /\ \A i \in 1..Len(calls) :
         /\ calls[i].input # <<>>
         /\ IsTrimOf(calls[i].input, user_prompt)

\* a text with blanks on both sides is submitted trimmed
C6_Witness ==
    /\ Returned
    /\ user_prompt = <<" ", "a", " ">>
    /\ calls[1].input = <<"a">>

\* C7: a run started by a click invokes generate_content exactly once,
\* whatever the invocation does; no other run invokes it.
C7_OneCallPerClick ==
    /\ (pc = "idle" /\ clicked) => Len(calls) = 1
    /\ (pc # "idle" \/ ~clicked) => calls = <<>>

\* an invocation that returned neither text nor feedback, and was not repeated
C7_Witness ==
    /\ pc = "idle"
    /\ clicked
    /\ Len(calls) = 1
    /\ api_exception = NoExc
    /\ story_text = None
    /\ feedback = None

\* C10: the prompt handed to the provider is the fixed template with the whole
\* campus context and the user's trimmed text in their fixed places, context
\* first, then the idea, then the instructions, both unmodified; the prompt is
\* thereby determined by the input alone.
C10_PromptEmbedsVerbatim ==
    \A i \in 1..Len(calls) :
        LET p == calls[i].prompt
            a == Len(PromptIntro)
            b == a + Len(SGU_CONTEXT)
            c == b + Len(PromptIdea)
            d == c + Len(calls[i].input)
        IN  /\ IsTrimOf(calls[i].input, user_prompt)
            /\ SubSeq(p, 1, a) = PromptIntro
            /\ SubSeq(p, a + 1, b) = SGU_CONTEXT
            /\ SubSeq(p, b + 1, c) = PromptIdea
            /\ SubSeq(p, c + 1, d) = calls[i].input
            /\ SubSeq(p, d + 1, Len(p)) = PromptInstructions

\* an input with a blank inside reaches the provider with the blank kept
C10_Witness ==
    /\ Returned
    /\ calls[1].input = <<"a", " ", "a">>
    /\ Len(calls[1].prompt) =
         Len(PromptIntro) + Len(SGU_CONTEXT) + Len(PromptIdea) + 3 + Len(PromptInstructions)

====
